---- MODULE Spec2Model ----
(***************************************************************************)
(* A model of the ring buffer of ring.c / ring.h: a circular index over a  *)
(* caller-owned array of `count` slots of `size` bytes each.               *)
(*                                                                         *)
(* Addresses and size_t values are unsigned integers of WordBits bits; all *)
(* arithmetic on them is done modulo 2^WordBits, as the C code does it on  *)
(* a flat address space.  An address outside the backing array is what the *)
(* compiled code yields when ring_nth is handed an index that is not in    *)
(* [0, count]; the model keeps that value so that it can be seen.          *)
(*                                                                         *)
(* The second half is a model of the byte buffer of buf.c / buf.h: a       *)
(* region of `capacity` bytes of which `size` are in use, grown through an *)
(* optional reallocator.  Spec runs the ring, SpecBuf runs the buffer.      *)
(***************************************************************************)
EXTENDS Integers, Sequences, FiniteSets, TLC

\* Largest capacity (r->count) a ring is initialised with.
MaxCount == 3

\* Width of size_t and of a pointer, in bits.
WordBits == 16

\* The element sizes (r->size) and array addresses (r->data) rings are built with.
Sizes == {1, 4}
DataAddrs == {256, 4096}

Word == 2 ^ WordBits

\* The null pointer (`return 0`).
NULL == 0

\* Unsigned wrap-around of size_t and pointer arithmetic.
Wrap(x) == x % Word

----------------------------------------------------------------------------
(* ring.c: the address arithmetic *)

\* ring_index: the physical index of logical position n, for n in [0, count].
ring_index(r, n) ==
    LET until_end == Wrap(r.count - r.start)
    IN  IF n >= until_end THEN Wrap(n - until_end) ELSE Wrap(r.start + n)

\* ring_nth: the address of the slot at logical position n.
ring_nth(r, n) ==
    Wrap(r.data + Wrap(ring_index(r, n) * r.size))

ring_front(r) ==
    IF r.used = 0 THEN NULL ELSE ring_nth(r, 0)

ring_back(r) ==
    IF r.used = 0 THEN NULL ELSE ring_nth(r, Wrap(r.used - 1))

----------------------------------------------------------------------------
(* ring.c: the operations that update the ring.  Each yields the ring after *)
(* the call and the pointer the call returns.                               *)

\* ring_push_back returning the slot after the one it has just counted in.
ring_push_back_offByOne(r) ==
    IF r.used = r.count
    THEN [r |-> r, ret |-> NULL]
    ELSE LET r1 == [r EXCEPT !.used = Wrap(@ + 1)]
         IN  [r |-> r1, ret |-> ring_nth(r1, r1.used)]

ring_push_back(r) ==
    IF r.used = r.count
    THEN [r |-> r, ret |-> NULL]
    ELSE LET r1 == [r EXCEPT !.used = Wrap(@ + 1)]
         IN  [r |-> r1, ret |-> ring_nth(r1, Wrap(r1.used - 1))]

\* ring_pop_back with the decrement made ahead of the emptiness test.
ring_pop_back_decrementFirst(r) ==
    LET r1 == [r EXCEPT !.used = Wrap(@ - 1)]
    IN  IF r.used = 0
        THEN [r |-> r1, ret |-> NULL]
        ELSE [r |-> r1, ret |-> ring_nth(r1, r1.used)]

ring_pop_back(r) ==
    IF r.used = 0
    THEN [r |-> r, ret |-> NULL]
    ELSE LET r1 == [r EXCEPT !.used = Wrap(@ - 1)]
         IN  [r |-> r1, ret |-> ring_nth(r1, r1.used)]

\* ring_push_front returning the last slot, as ring_push_back does.
ring_push_front_returnsBack(r) ==
    IF r.used = r.count
    THEN [r |-> r, ret |-> NULL]
    ELSE LET r1 == [r EXCEPT !.start = IF @ # 0 THEN Wrap(@ - 1)
                                                ELSE Wrap(r.count - 1),
                             !.used = Wrap(@ + 1)]
         IN  [r |-> r1, ret |-> ring_nth(r1, Wrap(r1.used - 1))]

\* ring_push_front without the wrap of start from 0 to count - 1.
ring_push_front_noWrap(r) ==
    IF r.used = r.count
    THEN [r |-> r, ret |-> NULL]
    ELSE LET r1 == [r EXCEPT !.start = Wrap(@ - 1), !.used = Wrap(@ + 1)]
         IN  [r |-> r1, ret |-> ring_nth(r1, 0)]

ring_push_front(r) ==
    IF r.used = r.count
    THEN [r |-> r, ret |-> NULL]
    ELSE LET r1 == [r EXCEPT !.start = IF @ # 0 THEN Wrap(@ - 1)
                                                ELSE Wrap(r.count - 1),
                             !.used = Wrap(@ + 1)]
         IN  [r |-> r1, ret |-> ring_nth(r1, 0)]

\* ring_pop_front with the address taken after start has moved.
ring_pop_front_lateAddress(r) ==
    IF r.used = 0
    THEN [r |-> r, ret |-> NULL, steps |-> <<"used == 0">>]
    ELSE LET s1 == Wrap(r.start + 1)
             r1 == [r EXCEPT !.used = Wrap(@ - 1),
                             !.start = IF s1 = r.count THEN 0 ELSE s1]
         IN  [r |-> r1, ret |-> ring_nth(r1, 0),
              steps |-> <<"used == 0", "used--", "start++", "ring_nth">>]

\* ring_pop_front computes the address of the front slot before it tests
\* for emptiness; on an empty ring the address is dropped.  `steps` lists
\* what the call does, in the order of its statements.
ring_pop_front(r) ==
    LET old == ring_nth(r, 0)
    IN  IF r.used = 0
        THEN [r |-> r, ret |-> NULL, steps |-> <<"ring_nth", "used == 0">>]
        ELSE LET s1 == Wrap(r.start + 1)
             IN  [r |-> [r EXCEPT !.used = Wrap(@ - 1),
                                  !.start = IF s1 = r.count THEN 0 ELSE s1],
                  ret |-> old,
                  steps |-> <<"ring_nth", "used == 0", "used--", "start++">>]

----------------------------------------------------------------------------
(* ring.c: the cursor functions *)

ring_next(r, elem) ==
    LET index == Wrap(elem - r.data) \div r.size
    IN  IF index = Wrap(r.start + r.used - 1) % r.count
        THEN NULL
        ELSE ring_nth(r, Wrap(Wrap(index - r.start) + 1))

ring_prev(r, elem) ==
    LET index == Wrap(elem - r.data) \div r.size
    IN  IF index = r.start
        THEN NULL
        ELSE LET index1 == IF index # 0 THEN Wrap(index - 1)
                                        ELSE Wrap(r.count - 1)
             IN  ring_nth(r, Wrap(index1 - r.start))

----------------------------------------------------------------------------
(* ring.c: the region queries.  `first` and `last` say whether the caller   *)
(* passed a non-null pointer for the region; `out` holds exactly the        *)
(* output arguments the call wrote.                                         *)

NoOut == [x \in {} |-> 0]

Regions(first, fcount, wantLast, last, lcount) ==
    IF wantLast
    THEN [first |-> first, fcount |-> fcount, last |-> last, lcount |-> lcount]
    ELSE [first |-> first, fcount |-> fcount]

\* ring_avail with the second free region one slot too long.
ring_avail_longLast(r, first, last) ==
    LET first_avail == ring_index(r, r.used)
        p == Wrap(r.data + Wrap(first_avail * r.size))
    IN  IF ~first
        THEN [ret |-> Wrap(r.count - r.used), out |-> NoOut]
        ELSE IF r.used = r.count
        THEN [ret |-> 0, out |-> Regions(p, 0, last, p, 0)]
        ELSE IF first_avail < r.start
        THEN LET fcount == Wrap(r.start - first_avail)
             IN  [ret |-> Wrap(r.count - r.used),
                  out |-> Regions(p, fcount, last,
                                  Wrap(p + Wrap(fcount * r.size)), 0)]
        ELSE [ret |-> Wrap(r.count - r.used),
              out |-> Regions(p, Wrap(r.count - first_avail), last,
                              r.data, Wrap(r.start + 1))]

\* ring_avail answering a full ring with null pointers.
ring_avail_nullWhenFull(r, first, last) ==
    LET first_avail == ring_index(r, r.used)
        p == Wrap(r.data + Wrap(first_avail * r.size))
    IN  IF ~first
        THEN [ret |-> Wrap(r.count - r.used), out |-> NoOut]
        ELSE IF r.used = r.count
        THEN [ret |-> 0, out |-> Regions(NULL, 0, last, NULL, 0)]
        ELSE IF first_avail < r.start
        THEN LET fcount == Wrap(r.start - first_avail)
             IN  [ret |-> Wrap(r.count - r.used),
                  out |-> Regions(p, fcount, last,
                                  Wrap(p + Wrap(fcount * r.size)), 0)]
        ELSE [ret |-> Wrap(r.count - r.used),
              out |-> Regions(p, Wrap(r.count - first_avail), last,
                              r.data, r.start)]

\* ring_avail reporting the two free regions in the opposite order.
ring_avail_regionsSwapped(r, first, last) ==
    LET first_avail == ring_index(r, r.used)
        p == Wrap(r.data + Wrap(first_avail * r.size))
    IN  IF ~first
        THEN [ret |-> Wrap(r.count - r.used), out |-> NoOut]
        ELSE IF r.used = r.count
        THEN [ret |-> 0, out |-> Regions(p, 0, last, p, 0)]
        ELSE IF first_avail < r.start
        THEN LET fcount == Wrap(r.start - first_avail)
             IN  [ret |-> Wrap(r.count - r.used),
                  out |-> Regions(p, fcount, last,
                                  Wrap(p + Wrap(fcount * r.size)), 0)]
        ELSE [ret |-> Wrap(r.count - r.used),
              out |-> Regions(r.data, r.start, last,
                              p, Wrap(r.count - first_avail))]

ring_avail(r, first, last) ==
    LET first_avail == ring_index(r, r.used)
        p == Wrap(r.data + Wrap(first_avail * r.size))
    IN  IF ~first
        THEN [ret |-> Wrap(r.count - r.used), out |-> NoOut]
        ELSE IF r.used = r.count
        THEN [ret |-> 0, out |-> Regions(p, 0, last, p, 0)]
        ELSE IF first_avail < r.start
        THEN LET fcount == Wrap(r.start - first_avail)
             IN  [ret |-> Wrap(r.count - r.used),
                  out |-> Regions(p, fcount, last,
                                  Wrap(p + Wrap(fcount * r.size)), 0)]
        ELSE [ret |-> Wrap(r.count - r.used),
              out |-> Regions(p, Wrap(r.count - first_avail), last,
                              r.data, r.start)]

\* ring_used taking a run that ends at start itself for a run that wraps.
ring_used_wrapTestInclusive(r, first, last) ==
    LET p == Wrap(r.data + Wrap(r.start * r.size))
    IN  IF ~first
        THEN [ret |-> r.used, out |-> NoOut]
        ELSE IF r.used = 0
        THEN [ret |-> 0, out |-> Regions(p, 0, last, p, 0)]
        ELSE LET last_used == ring_index(r, Wrap(r.used - 1))
             IN  IF last_used <= r.start
                 THEN [ret |-> r.used,
                       out |-> Regions(p, Wrap(r.count - r.start), last,
                                       r.data, Wrap(last_used + 1))]
                 ELSE LET fcount == Wrap(Wrap(last_used + 1) - r.start)
                      IN  [ret |-> r.used,
                           out |-> Regions(p, fcount, last,
                                           Wrap(p + Wrap(fcount * r.size)), 0)]

\* ring_used with the second region one slot short (last_used for last_used + 1).
ring_used_shortLast(r, first, last) ==
    LET p == Wrap(r.data + Wrap(r.start * r.size))
    IN  IF ~first
        THEN [ret |-> r.used, out |-> NoOut]
        ELSE IF r.used = 0
        THEN [ret |-> 0, out |-> Regions(p, 0, last, p, 0)]
        ELSE LET last_used == ring_index(r, Wrap(r.used - 1))
             IN  IF last_used < r.start
                 THEN [ret |-> r.used,
                       out |-> Regions(p, Wrap(r.count - r.start), last,
                                       r.data, last_used)]
                 ELSE LET fcount == Wrap(Wrap(last_used + 1) - r.start)
                      IN  [ret |-> r.used,
                           out |-> Regions(p, fcount, last,
                                           Wrap(p + Wrap(fcount * r.size)), 0)]

ring_used(r, first, last) ==
    LET p == Wrap(r.data + Wrap(r.start * r.size))
    IN  IF ~first
        THEN [ret |-> r.used, out |-> NoOut]
        ELSE IF r.used = 0
        THEN [ret |-> 0, out |-> Regions(p, 0, last, p, 0)]
        ELSE LET last_used == ring_index(r, Wrap(r.used - 1))
             IN  IF last_used < r.start
                 THEN [ret |-> r.used,
                       out |-> Regions(p, Wrap(r.count - r.start), last,
                                       r.data, Wrap(last_used + 1))]
                 ELSE LET fcount == Wrap(Wrap(last_used + 1) - r.start)
                      IN  [ret |-> r.used,
                           out |-> Regions(p, fcount, last,
                                           Wrap(p + Wrap(fcount * r.size)), 0)]

----------------------------------------------------------------------------
(* The state: one ring, the calls made on it, and what its user knows.      *)

VARIABLES
    r,      \* the struct ring: data, size, count, start, used
    call,   \* the latest call: its name, arguments, results and the ring before it
    last,   \* the call before the latest one
    it,     \* the traversal in progress (RING_EACH, or its mirror with ring_prev)
    S,      \* the slots handed out by pushes and not yet popped, front to back
    phase,  \* where the calls so far stand in the fill-then-slide usage pattern
    fronts, \* the slots ring_push_front alone has put into a fresh ring, in push order
    buf,    \* the struct buf: data, size, capacity, realloc
    bytes,  \* the bytes of the region buf.data points to, buf.capacity of them
    dangling, \* the region at buf.data has been released by the reallocator
    bcall   \* the latest buf_* call: its name, arguments, result and the buf before it

ringvars == <<r, call, last, it, S, phase, fronts>>
bufvars == <<buf, bytes, dangling, bcall>>
vars == <<ringvars, bufvars>>

\* The number of rounds a traversal is followed for.
MaxRounds == 6

NoIter == [dir |-> "none", seen |-> <<>>, done |-> FALSE]

\* The record of a call made in the current state.
Called(op, arg, first, lst, ret, out) ==
    [op |-> op, arg |-> arg, first |-> first, last |-> lst,
     ret |-> ret, out |-> out, before |-> r, S |-> S]

Log(c) ==
    /\ call' = c
    /\ last' = call

\* The address of physical slot i of the backing array.
SlotAddr(rr, i) == rr.data + i * rr.size

\* The physical index of logical position n (ring.h: the active elements are
\* those between ring_front and ring_back).
Phys(rr, n) == (rr.start + n) % rr.count

\* The slots of the two regions a region query wrote, first region first.
RegionSlots(out, size) ==
    [i \in 1 .. (out.fcount + out.lcount) |->
        IF i <= out.fcount THEN out.first + (i - 1) * size
                           ELSE out.last + (i - 1 - out.fcount) * size]

\* The usage pattern of a sliding window: an empty ring is filled by
\* successful ring_push_back calls alone ("fill", then "filled"), after
\* which successful ring_pop_front ("popped") and ring_push_back ("slide")
\* calls alternate.  Any other call that updates the ring, or fails to,
\* leaves the pattern; an empty ring starts it again.
NextPhase(op, ok, r1) ==
    IF ok /\ op = "push_back" /\ phase = "fill"
    THEN (IF r1.used = r1.count THEN "filled" ELSE "fill")
    ELSE IF ok /\ op = "push_back" /\ phase = "popped" THEN "slide"
    ELSE IF ok /\ op = "pop_front" /\ phase \in {"filled", "slide"}
    THEN "popped"
    ELSE IF r1.used = 0 THEN "fill"
    ELSE "other"

\* The usage pattern of prepending to a fresh ring: from start = used = 0
\* only ring_push_front is called.  `rets` are the slots it has returned.
\* Any other call that updates the ring leaves the pattern; a ring back at
\* start = used = 0 starts it again.
NextFronts(op, ret, r1) ==
    IF r1.start = 0 /\ r1.used = 0 THEN [live |-> TRUE, rets |-> <<>>]
    ELSE IF op = "push_front" /\ fronts.live
    THEN (IF ret # NULL THEN [fronts EXCEPT !.rets = Append(@, ret)]
                        ELSE fronts)
    ELSE [live |-> FALSE, rets |-> <<>>]

\* The buffer while the ring is at work: a buffer nothing is done with.
IdleBuf ==
    /\ buf = [data |-> NULL, size |-> 0, capacity |-> 0, realloc |-> FALSE]
    /\ bytes = <<>>
    /\ dangling = FALSE
    /\ bcall = [op |-> "init"]

Init ==
    /\ IdleBuf
    /\ fronts = [live |-> TRUE, rets |-> <<>>]
    /\ r \in [data : DataAddrs, size : Sizes, count : 1 .. MaxCount,
              start : {0}, used : {0}]
    /\ call = [op |-> "init", arg |-> 0, first |-> FALSE, last |-> FALSE,
               ret |-> 0, out |-> NoOut, before |-> r, S |-> <<>>]
    /\ last = call
    /\ it = NoIter
    /\ S = <<>>
    /\ phase = "fill"

----------------------------------------------------------------------------
(* The calls *)

Front ==
    LET p == ring_front(r)
    IN  /\ Log(Called("front", 0, FALSE, FALSE, p, NoOut))
        /\ it' = [dir |-> "fwd",
                  seen |-> IF p = NULL THEN <<>> ELSE <<p>>,
                  done |-> (p = NULL)]
        /\ UNCHANGED <<r, S, phase, fronts, bufvars>>

Back ==
    LET p == ring_back(r)
    IN  /\ Log(Called("back", 0, FALSE, FALSE, p, NoOut))
        /\ it' = [dir |-> "bwd",
                  seen |-> IF p = NULL THEN <<>> ELSE <<p>>,
                  done |-> (p = NULL)]
        /\ UNCHANGED <<r, S, phase, fronts, bufvars>>

\* One more round of RING_EACH: obj = ring_next(ring, obj) as long as obj is
\* not NULL, whether or not obj is an element of the ring.  A loop is
\* followed for MaxRounds rounds.
Next_ ==
    /\ it.dir = "fwd"
    /\ ~it.done
    /\ Len(it.seen) < MaxRounds
    /\ LET cur == it.seen[Len(it.seen)]
           p == ring_next(r, cur)
       IN  /\ Log(Called("next", cur, FALSE, FALSE, p, NoOut))
           /\ it' = [it EXCEPT !.seen = IF p = NULL THEN @ ELSE Append(@, p),
                               !.done = (p = NULL)]
    /\ UNCHANGED <<r, S, phase, fronts, bufvars>>

\* The same loop from back to front: obj = ring_prev(ring, obj).
Prev ==
    /\ it.dir = "bwd"
    /\ ~it.done
    /\ Len(it.seen) < MaxRounds
    /\ LET cur == it.seen[Len(it.seen)]
           p == ring_prev(r, cur)
       IN  /\ Log(Called("prev", cur, FALSE, FALSE, p, NoOut))
           /\ it' = [it EXCEPT !.seen = IF p = NULL THEN @ ELSE Append(@, p),
                               !.done = (p = NULL)]
    /\ UNCHANGED <<r, S, phase, fronts, bufvars>>

PushBack ==
    LET res == ring_push_back(r)
    IN  /\ r' = res.r
        /\ Log(Called("push_back", 0, FALSE, FALSE, res.ret, NoOut))
        /\ S' = IF res.ret # NULL THEN Append(S, res.ret) ELSE S
        /\ phase' = NextPhase("push_back", res.ret # NULL, res.r)
        /\ fronts' = NextFronts("push_back", res.ret, res.r)
        /\ it' = NoIter
        /\ UNCHANGED bufvars

PushFront ==
    LET res == ring_push_front(r)
    IN  /\ r' = res.r
        /\ Log(Called("push_front", 0, FALSE, FALSE, res.ret, NoOut))
        /\ S' = IF res.ret # NULL THEN <<res.ret>> \o S ELSE S
        /\ phase' = NextPhase("push_front", res.ret # NULL, res.r)
        /\ fronts' = NextFronts("push_front", res.ret, res.r)
        /\ it' = NoIter
        /\ UNCHANGED bufvars

PopBack ==
    LET res == ring_pop_back(r)
    IN  /\ r' = res.r
        /\ Log(Called("pop_back", 0, FALSE, FALSE, res.ret, NoOut))
        /\ S' = IF res.ret # NULL /\ S # <<>>
                THEN SubSeq(S, 1, Len(S) - 1) ELSE S
        /\ phase' = NextPhase("pop_back", res.ret # NULL, res.r)
        /\ fronts' = NextFronts("pop_back", res.ret, res.r)
        /\ it' = NoIter
        /\ UNCHANGED bufvars

PopFront ==
    LET res == ring_pop_front(r)
    IN  /\ r' = res.r
        /\ Log(Called("pop_front", 0, FALSE, FALSE, res.ret, NoOut)
                    @@ [steps |-> res.steps])
        /\ S' = IF res.ret # NULL /\ S # <<>> THEN Tail(S) ELSE S
        /\ phase' = NextPhase("pop_front", res.ret # NULL, res.r)
        /\ fronts' = NextFronts("pop_front", res.ret, res.r)
        /\ it' = NoIter
        /\ UNCHANGED bufvars

Avail(first, lst) ==
    LET res == ring_avail(r, first, lst)
    IN  /\ Log(Called("avail", 0, first, lst, res.ret, res.out))
        /\ it' = NoIter
        /\ UNCHANGED <<r, S, phase, fronts, bufvars>>

Used(first, lst) ==
    LET res == ring_used(r, first, lst)
    IN  /\ Log(Called("used", 0, first, lst, res.ret, res.out))
        /\ it' = NoIter
        /\ UNCHANGED <<r, S, phase, fronts, bufvars>>

\* The bulk feed of ring.h: the user stores k elements into the regions
\* ring_avail has just returned, in order, and adds k to r.used.
BulkFill(k) ==
    /\ call.op = "avail"
    /\ call.first /\ call.last
    /\ k <= call.ret
    /\ r' = [r EXCEPT !.used = Wrap(@ + k)]
    /\ Log(Called("bulk_fill", k, FALSE, FALSE, k, NoOut))
    /\ S' = S \o SubSeq(RegionSlots(call.out, r.size), 1, k)
    /\ phase' = NextPhase("bulk_fill", k > 0, [r EXCEPT !.used = Wrap(@ + k)])
    /\ fronts' = NextFronts("bulk_fill", k, [r EXCEPT !.used = Wrap(@ + k)])
    /\ it' = NoIter
    /\ UNCHANGED bufvars

Next ==
    \/ Front
    \/ Back
    \/ Next_
    \/ Prev
    \/ PushBack
    \/ PushFront
    \/ PopBack
    \/ PopFront
    \/ \E first, lst \in BOOLEAN : Avail(first, lst)
    \/ \E first, lst \in BOOLEAN : Used(first, lst)
    \/ \E k \in 0 .. MaxCount : BulkFill(k)

Spec == Init /\ [][Next]_vars

----------------------------------------------------------------------------
(* Traversal *)

\* The active slots, front to back: (start + n) mod count for n = 0 .. used-1.
ActiveSlots(rr) ==
    [i \in 1 .. rr.used |-> SlotAddr(rr, Phys(rr, i - 1))]

\* seq is the first Len(seq) entries of full.
IsPrefix(seq, full) ==
    /\ Len(seq) <= Len(full)
    /\ \A i \in 1 .. Len(seq) : seq[i] = full[i]

\* The entries of seq, last to first.
Reverse(seq) ==
    [i \in 1 .. Len(seq) |-> seq[Len(seq) + 1 - i]]

\* C1: a front-to-back traversal (ring_front, then ring_next until NULL)
\* visits the slots (start + n) mod count for n = 0 .. used-1 in that order,
\* `used` of them in all, the last one being ring_back; and ring_next
\* returns NULL exactly when its argument is the current back.
C1_ForwardTraversal ==
    /\ it.dir = "fwd" =>
          /\ IsPrefix(it.seen, ActiveSlots(r))
          /\ it.done =>
                /\ Len(it.seen) = r.used
                /\ r.used > 0 => it.seen[Len(it.seen)] = ring_back(r)
    /\ call.op = "next" => (call.ret = NULL <=> call.arg = ring_back(r))

\* C2: ring_prev of the active slot at logical position n is NULL for n = 0
\* and the slot at position n-1 otherwise, so a back-to-front traversal
\* (ring_back, then ring_prev until NULL) visits the `used` active slots in
\* reverse and ends at ring_front.
C2_BackwardTraversal ==
    /\ it.dir = "bwd" =>
          /\ IsPrefix(it.seen, Reverse(ActiveSlots(r)))
          /\ it.done =>
                /\ Len(it.seen) = r.used
                /\ r.used > 0 => it.seen[Len(it.seen)] = ring_front(r)
    /\ call.op = "prev" =>
          \A n \in 0 .. r.used - 1 :
              call.arg = SlotAddr(r, Phys(r, n)) =>
                  call.ret = IF n = 0 THEN NULL
                             ELSE SlotAddr(r, Phys(r, n - 1))

----------------------------------------------------------------------------
(* Boundary behaviour and the index invariant *)

\* C3: a push on a full ring and a pop on an empty ring return NULL and
\* leave the ring as it was; ring_front and ring_back return NULL on an
\* empty ring and never change start or used.
C3_FailureLeavesRing ==
    /\ (call.op \in {"push_back", "push_front"}
            /\ call.before.used = call.before.count)
          => (call.ret = NULL /\ r = call.before)
    /\ (call.op \in {"pop_back", "pop_front"} /\ call.before.used = 0)
          => (call.ret = NULL /\ r = call.before)
    /\ call.op \in {"front", "back"}
          => /\ r.start = call.before.start
             /\ r.used = call.before.used
             /\ call.before.used = 0 => call.ret = NULL

\* A pop has just failed on an empty ring whose start is not 0.
C3_Witness ==
    /\ call.op = "pop_back"
    /\ call.before.used = 0
    /\ call.before.start > 0
    /\ call.ret = NULL

\* C4: after any calls of the four push and pop functions, failing or not,
\* 0 <= used <= count and 0 <= start < count, and no call changes count,
\* size or data.
C4_IndexInvariant ==
    /\ 0 <= r.used /\ r.used <= r.count
    /\ 0 <= r.start /\ r.start < r.count
    /\ r.count = call.before.count
    /\ r.size = call.before.size
    /\ r.data = call.before.data

\* ring_push_front has just moved start from 0 to count - 1.
C4_Witness ==
    /\ call.op = "push_front"
    /\ call.ret # NULL
    /\ call.before.start = 0
    /\ r.count > 1
    /\ r.start = r.count - 1

\* C5: on a ring that is not full, ring_push_back followed at once by
\* ring_pop_back, and ring_push_front followed at once by ring_pop_front,
\* restore start and used, and the pop returns the slot the push returned.
C5_PushThenPop ==
    /\ (last.op = "push_back" /\ last.before.used # last.before.count
            /\ call.op = "pop_back")
          => /\ r.start = last.before.start
             /\ r.used = last.before.used
             /\ call.ret # NULL
             /\ call.ret = last.ret
    /\ (last.op = "push_front" /\ last.before.used # last.before.count
            /\ call.op = "pop_front")
          => /\ r.start = last.before.start
             /\ r.used = last.before.used
             /\ call.ret # NULL
             /\ call.ret = last.ret

\* ring_push_front took start from 0 to count - 1 and ring_pop_front has
\* just brought it back.
C5_Witness ==
    /\ last.op = "push_front"
    /\ call.op = "pop_front"
    /\ last.before.start = 0
    /\ last.before.used > 0
    /\ call.before.start = r.count - 1
    /\ r.count > 1
    /\ r.start = 0

----------------------------------------------------------------------------
(* Region queries *)

\* ring_avail and ring_used have been called one after the other.
AvailCall == IF call.op = "avail" THEN call ELSE last
UsedCall == IF call.op = "used" THEN call ELSE last
BothQueried ==
    \/ call.op = "avail" /\ last.op = "used"
    \/ call.op = "used" /\ last.op = "avail"

\* C6: what ring_avail returns plus what ring_used returns is count,
\* whether or not regions are asked for, and a call that is asked for both
\* regions returns fcount + lcount.
C6_AvailPlusUsed ==
    /\ BothQueried => AvailCall.ret + UsedCall.ret = r.count
    /\ (call.op \in {"avail", "used"} /\ call.first /\ call.last)
          => call.ret = call.out.fcount + call.out.lcount

\* ring_used has reported a run that wraps, right after a ring_avail that
\* was asked for no region.
C6_Witness ==
    /\ call.op = "used" /\ last.op = "avail"
    /\ call.first /\ call.last
    /\ ~last.first
    /\ call.out.fcount > 0
    /\ call.out.lcount > 0
    /\ last.ret > 0

\* Both calls were asked for both regions.
BothRegions ==
    /\ BothQueried
    /\ AvailCall.first /\ AvailCall.last
    /\ UsedCall.first /\ UsedCall.last

\* ring_used reported the occupied run as one region.
OneUsedRegion ==
    /\ BothRegions
    /\ r.used > 0
    /\ UsedCall.out.fcount = r.used
    /\ UsedCall.out.lcount = 0

\* The byte address a lies in the occupied region ring_used reported.
InOccupied(a) ==
    /\ UsedCall.out.first <= a
    /\ a < UsedCall.out.first + UsedCall.out.fcount * r.size

\* C7 as stated: when ring_used reports one region, neither address that
\* ring_avail reports, `first` or `last`, of a zero-length region included,
\* lies in the occupied byte range.
C7_NoFreeAddressInOccupied ==
    OneUsedRegion =>
        /\ ~InOccupied(AvailCall.out.first)
        /\ ~InOccupied(AvailCall.out.last)

\* C7 as amended: when ring_used reports one region, no byte of the two
\* free regions ring_avail reports lies in the occupied byte range; the
\* address of a zero-length free region may lie in it.
C7_FreeRegionsMissOccupied ==
    OneUsedRegion =>
        \A i \in 1 .. Len(RegionSlots(AvailCall.out, r.size)) :
            \A b \in 0 .. r.size - 1 :
                ~InOccupied(RegionSlots(AvailCall.out, r.size)[i] + b)

\* One occupied region with a non-empty free region on either side.
C7_Witness ==
    /\ OneUsedRegion
    /\ AvailCall.out.fcount > 0
    /\ AvailCall.out.lcount > 0

\* p, the pointer of a region of n slots, is non-null and within the array,
\* one past its end only for n = 0.
ValidPointer(p, n) ==
    /\ p # NULL
    /\ r.data <= p
    /\ p <= r.data + r.count * r.size
    /\ p = r.data + r.count * r.size => n = 0

\* C8: the pointers a region query writes are non-null and within the
\* backing array (one past the end only for a region of no slots), also
\* for a region of count 0; ring_avail on a full ring and ring_used on an
\* empty ring return 0 with fcount = lcount = 0 and two such pointers.
C8_PointersValid ==
    /\ (call.op \in {"avail", "used"} /\ call.first)
          => /\ ValidPointer(call.out.first, call.out.fcount)
             /\ call.last => ValidPointer(call.out.last, call.out.lcount)
    /\ (call.first /\ call.last
            /\ \/ call.op = "avail" /\ r.used = r.count
               \/ call.op = "used" /\ r.used = 0)
          => /\ call.ret = 0
             /\ call.out.fcount = 0
             /\ call.out.lcount = 0

\* ring_avail has answered for a full ring whose start is not 0.
C8_Witness ==
    /\ call.op = "avail"
    /\ call.first /\ call.last
    /\ r.used = r.count
    /\ r.start > 0

\* The pointers that k calls of ring_push_back return, and the ring after them.
RECURSIVE PushBackRets(_, _)
PushBackRets(rr, k) ==
    IF k = 0 THEN <<>>
    ELSE <<ring_push_back(rr).ret>> \o PushBackRets(ring_push_back(rr).r, k - 1)

RECURSIVE PushBackRing(_, _)
PushBackRing(rr, k) ==
    IF k = 0 THEN rr ELSE PushBackRing(ring_push_back(rr).r, k - 1)

\* C9: for every k up to the number of free slots, the first k slots of
\* the regions ring_avail returns, `first` then `last`, are the slots k
\* calls of ring_push_back return, in that order, and adding k to used
\* gives the ring those k calls give.
C9_BulkFillIsPushBack ==
    /\ \A k \in 0 .. r.count - r.used :
          /\ SubSeq(RegionSlots(ring_avail(r, TRUE, TRUE).out, r.size), 1, k)
                = PushBackRets(r, k)
          /\ [r EXCEPT !.used = Wrap(@ + k)] = PushBackRing(r, k)
    /\ call.op = "bulk_fill"
          => /\ r = PushBackRing(call.before, call.arg)
             /\ S = call.S \o PushBackRets(call.before, call.arg)

\* A bulk fill has used up the first free region and gone on into the second.
C9_Witness ==
    /\ call.op = "bulk_fill"
    /\ last.out.fcount > 0
    /\ call.arg > last.out.fcount
    /\ r.used = call.before.used + call.arg

----------------------------------------------------------------------------
(* Sliding window *)

\* C10: once an empty ring has been filled by ring_push_back calls, pairs
\* of ring_pop_front and ring_push_back all succeed: the pop returns the
\* oldest slot and moves start on by one modulo count, the push returns
\* the slot just released and fills the ring again, and a front-to-back
\* traversal after a pair yields the `count` slots pushed last, in the
\* order they were pushed.
C10_SlidingWindow ==
    /\ phase \in {"filled", "slide"} => r.used = r.count
    /\ (phase = "popped" /\ call.op = "pop_front"
            /\ call.before.used = r.count)
          => /\ call.ret # NULL
             /\ call.ret = Head(call.S)
             /\ r.start = (call.before.start + 1) % r.count
             /\ r.used = r.count - 1
    /\ (phase = "slide" /\ call.op = "push_back"
            /\ call.before.used = r.count - 1)
          => /\ call.ret # NULL
             /\ r.used = r.count
             /\ last.op = "pop_front" => call.ret = last.ret
    /\ (phase = "slide" /\ it.dir = "fwd")
          => /\ Len(S) = r.count
             /\ IsPrefix(it.seen, S)
             /\ it.done => it.seen = S

----------------------------------------------------------------------------
(* Prepending to a fresh ring *)

\* The entries of seq are pairwise distinct.
Distinct(seq) ==
    \A i, j \in 1 .. Len(seq) : i # j => seq[i] # seq[j]

\* C11: from a fresh ring (start = used = 0), `count` ring_push_front
\* calls in a row all succeed and return pairwise distinct slots, leave
\* start = 0 and used = count, a further ring_push_front fails, and a
\* front-to-back traversal yields the slots in the reverse of push order.
C11_PushFrontFill ==
    fronts.live =>
        /\ Len(fronts.rets) = r.used
        /\ Distinct(fronts.rets)
        /\ (call.op = "push_front" /\ call.before.used < r.count)
              => call.ret # NULL
        /\ (call.op = "push_front" /\ call.before.used = r.count)
              => (call.ret = NULL /\ r = call.before)
        /\ Len(fronts.rets) = r.count
              => /\ r.start = 0
                 /\ r.used = r.count
                 /\ it.dir = "fwd"
                       => /\ IsPrefix(it.seen, Reverse(fronts.rets))
                          /\ it.done => Len(it.seen) = r.count

\* A ring of three or more slots was filled by ring_push_front alone and
\* has been traversed from front to back.
C11_Witness ==
    /\ fronts.live
    /\ r.count >= 3
    /\ Len(fronts.rets) = r.count
    /\ it.dir = "fwd"
    /\ it.done
    /\ Len(it.seen) = r.count

----------------------------------------------------------------------------
(* Region splitting *)

\* The slots of the run of len slots that begins at physical index begin.
RunSlots(begin, len) ==
    [i \in 1 .. len |-> SlotAddr(r, (begin + i - 1) % r.count)]

\* C17: the slots of the first region followed by those of the second
\* are the physical indices (begin + i) mod count for i = 0 .. len-1 in
\* that order, with begin = start and len = used for ring_used, and
\* begin = (start + used) mod count and len = count - used for ring_avail;
\* the first region does not reach past index count, and a second region
\* that is not empty starts at index 0.
C17_RegionSplit ==
    (call.op \in {"avail", "used"} /\ call.first /\ call.last) =>
        LET begin == IF call.op = "used" THEN r.start
                     ELSE (r.start + r.used) % r.count
            len == IF call.op = "used" THEN r.used ELSE r.count - r.used
        IN  /\ RegionSlots(call.out, r.size) = RunSlots(begin, len)
            /\ call.out.first + call.out.fcount * r.size
                  <= r.data + r.count * r.size
            /\ call.out.lcount > 0 => call.out.last = r.data

\* ring_avail has reported a free run that wraps.
C17_Witness ==
    /\ call.op = "avail"
    /\ call.first /\ call.last
    /\ call.out.fcount > 0
    /\ call.out.lcount > 0
    /\ r.used > 0

----------------------------------------------------------------------------
(* ring_pop_front on an empty ring *)

\* C18: ring_pop_front tests for emptiness before it computes any address
\* from the ring: no address is computed ahead of the test, and on an
\* empty ring none is computed at all.
C18_EmptinessTestFirst ==
    call.op = "pop_front" =>
        /\ \A i \in 1 .. Len(call.steps) :
              call.steps[i] = "ring_nth"
                  => \E j \in 1 .. i - 1 : call.steps[j] = "used == 0"
        /\ call.before.used = 0
              => \A i \in 1 .. Len(call.steps) : call.steps[i] # "ring_nth"

----------------------------------------------------------------------------
(* The ring as a double-ended queue of slots *)

\* C19: along with the queue S of slots (a successful push_back appends
\* the slot it returns, push_front prepends it, pop_back drops the last
\* and pop_front the first entry), used = Len(S) and S[n+1] is the slot
\* (start + n) mod count; a successful pop returns the entry it dropped,
\* ring_front returns the first and ring_back the last entry of S, and
\* the entries that stay in S keep their address.
C19_RingIsDeque ==
    /\ Len(S) = r.used
    /\ S = ActiveSlots(r)
    /\ (call.op = "push_back" /\ call.ret # NULL)
          => ActiveSlots(r) = Append(ActiveSlots(call.before), call.ret)
    /\ (call.op = "push_front" /\ call.ret # NULL)
          => ActiveSlots(r) = <<call.ret>> \o ActiveSlots(call.before)
    /\ (call.op = "pop_back" /\ call.ret # NULL)
          => ActiveSlots(call.before) = Append(ActiveSlots(r), call.ret)
    /\ (call.op = "pop_front" /\ call.ret # NULL)
          => ActiveSlots(call.before) = <<call.ret>> \o ActiveSlots(r)
    /\ call.op \in {"push_back", "push_front"}
          => (call.ret # NULL <=> Len(S) = Len(call.S) + 1)
    /\ call.op \in {"pop_back", "pop_front"}
          => (call.ret # NULL <=> Len(S) = Len(call.S) - 1)
    /\ call.op = "front"
          => call.ret = IF S = <<>> THEN NULL ELSE S[1]
    /\ call.op = "back"
          => call.ret = IF S = <<>> THEN NULL ELSE S[Len(S)]

\* ring_pop_front has just taken the first entry from a run that wraps.
C19_Witness ==
    /\ call.op = "pop_front"
    /\ call.ret # NULL
    /\ call.before.start + call.before.used > r.count
    /\ r.used >= 2
    /\ r.start = 0

\* C20: a successful push returns an address inside the backing array
\* that is the address of no slot occupied just before the call, so the
\* occupied slots are pairwise distinct.
C20_PushGivesFreeSlot ==
    /\ (call.op \in {"push_back", "push_front"} /\ call.ret # NULL)
          => /\ r.data <= call.ret
             /\ call.ret < r.data + r.count * r.size
             /\ \A n \in 0 .. call.before.used - 1 :
                   call.ret # SlotAddr(call.before, Phys(call.before, n))
             /\ \A i \in 1 .. Len(call.S) : call.ret # call.S[i]
    /\ Distinct(S)

\* ring_push_back has filled a ring whose run wraps.
C20_Witness ==
    /\ call.op = "push_back"
    /\ call.ret # NULL
    /\ r.used = r.count
    /\ r.start > 1
    /\ call.ret < SlotAddr(r, r.start)

----------------------------------------------------------------------------
(* buf.c: a byte buffer with an optional reallocator.                       *)
(*                                                                         *)
(* A buffer state st is the struct buf st.b, the bytes st.bytes read at     *)
(* st.b.data, and st.dangling: the region at st.b.data has been released.  *)
(* What the reallocator does when it is called is given by al: the pointer *)
(* al.ptr it returns (NULL when it fails or when it has released a region  *)
(* resized to 0 bytes), the byte al.fill found in memory it has newly      *)
(* handed out or released, and al.fault: "freed" when it released the      *)
(* region, "abort" when it ended the process on being handed a released    *)
(* region, "none" otherwise.                                               *)

\* The largest region the reallocator can hand out; also the largest buffer
\* a run starts with.
MaxAlloc == 2

\* SIZE_MAX
SizeMax == Word - 1

\* What is found in memory nobody has written yet.
Junk == {0, 255}

\* The buffer a run starts with holds InitByte + i in its i-th byte.
InitByte == 32
StackAddrs == {512}
HeapAddrs == {8192, 8448}

\* The value of b->realloc(data, n): NULL, or al.ptr.
realloc(al, n) == IF n > MaxAlloc \/ al.fault # "none" THEN NULL ELSE al.ptr

Resized(mem, n, fill) ==
    [i \in 1 .. n |-> IF i <= Len(mem) THEN mem[i] ELSE fill]

\* memcpy(dst + at, src, Len(src)) within the region of bytes mem.
Memcpy(mem, at, src) ==
    [i \in 1 .. Len(mem) |->
        IF i - at \in 1 .. Len(src) THEN src[i - at] ELSE mem[i]]

\* The memory at b->data after b->realloc(data, n) has returned: released
\* (the standard realloc does so for n = 0 and returns NULL), left alone when
\* the call failed, or else the new region with the old bytes kept up to n.
\* A released region that realloc resizes in place, returning the address it
\* was handed, stays released; a region at another address is a sound one.
Reallocated(st, n, al) ==
    IF al.fault = "freed"
    THEN [bytes |-> [i \in 1 .. Len(st.bytes) |-> al.fill], dangling |-> TRUE]
    ELSE IF realloc(al, n) = NULL
    THEN [bytes |-> st.bytes, dangling |-> st.dangling]
    ELSE [bytes |-> Resized(st.bytes, n, al.fill),
          dangling |-> st.dangling /\ realloc(al, n) = st.b.data]

\* A buf_* function has returned ret, leaving the struct b and the memory mem.
Returned(b, mem, ret, called) ==
    [b |-> b, bytes |-> mem.bytes, dangling |-> mem.dangling,
     ret |-> ret, called |-> called, aborted |-> FALSE]

Result(st, ret, called) == Returned(st.b, st, ret, called)

\* The reallocator has ended the process: the function does not return.
Aborted(st) ==
    [b |-> st.b, bytes |-> st.bytes, dangling |-> st.dangling,
     ret |-> FALSE, called |-> TRUE, aborted |-> TRUE]

\* buf_ensure_capacity that forgets to record the new capacity
buf_ensure_capacity_keepsCapacity(st, cap, al) ==
    IF cap <= st.b.capacity THEN Result(st, TRUE, FALSE)
    ELSE IF ~st.b.realloc THEN Result(st, FALSE, FALSE)
    ELSE IF al.fault = "abort" THEN Aborted(st)
    ELSE LET new_data == realloc(al, cap)
             mem == Reallocated(st, cap, al)
         IN  IF new_data = NULL THEN Returned(st.b, mem, FALSE, TRUE)
             ELSE Returned([st.b EXCEPT !.data = new_data],
                           mem, TRUE, TRUE)

buf_ensure_capacity(st, cap, al) ==
    IF cap <= st.b.capacity THEN Result(st, TRUE, FALSE)
    ELSE IF ~st.b.realloc THEN Result(st, FALSE, FALSE)
    ELSE IF al.fault = "abort" THEN Aborted(st)
    ELSE LET new_data == realloc(al, cap)
             mem == Reallocated(st, cap, al)
         IN  IF new_data = NULL THEN Returned(st.b, mem, FALSE, TRUE)
             ELSE Returned([st.b EXCEPT !.data = new_data, !.capacity = cap],
                           mem, TRUE, TRUE)

\* buf_ensure_remaining without the test for size + rem overflowing
buf_ensure_remaining_noOverflowTest(st, rem, al) ==
    IF Wrap(st.b.capacity - st.b.size) >= rem THEN Result(st, TRUE, FALSE)
    ELSE buf_ensure_capacity(st, Wrap(st.b.size + rem), al)

buf_ensure_remaining(st, rem, al) ==
    IF Wrap(st.b.capacity - st.b.size) >= rem THEN Result(st, TRUE, FALSE)
    ELSE IF rem > Wrap(SizeMax - st.b.size) THEN Result(st, FALSE, FALSE)
    ELSE buf_ensure_capacity(st, Wrap(st.b.size + rem), al)

buf_trim(st, al) ==
    IF st.b.size = st.b.capacity THEN Result(st, TRUE, FALSE)
    ELSE IF ~st.b.realloc THEN Result(st, FALSE, FALSE)
    ELSE IF al.fault = "abort" THEN Aborted(st)
    ELSE LET new_data == realloc(al, st.b.size)
             mem == Reallocated(st, st.b.size, al)
         IN  IF new_data = NULL THEN Returned(st.b, mem, FALSE, TRUE)
             ELSE Returned([st.b EXCEPT !.data = new_data, !.capacity = st.b.size],
                           mem, TRUE, TRUE)

\* buf_append that copies to the start of the buffer instead of its end
buf_append_copiesToStart(st, src, al) ==
    LET e == buf_ensure_remaining(st, src.n, al)
    IN  IF ~e.ret THEN e
        ELSE [e EXCEPT !.bytes = Memcpy(e.bytes, 0, src.bytes),
                       !.b.size = Wrap(@ + src.n)]

\* buf_append that ignores the failure of buf_ensure_remaining
buf_append_unchecked(st, src, al) ==
    LET e == buf_ensure_remaining(st, src.n, al)
    IN  [e EXCEPT !.bytes = Memcpy(e.bytes, e.b.size, src.bytes),
                  !.b.size = Wrap(@ + src.n),
                  !.ret = TRUE]

\* buf_append(b, data, size): src.n is `size` and src.bytes the bytes at `data`.
buf_append(st, src, al) ==
    LET e == buf_ensure_remaining(st, src.n, al)
    IN  IF ~e.ret THEN e
        ELSE [e EXCEPT !.bytes = Memcpy(e.bytes, e.b.size, src.bytes),
                       !.b.size = Wrap(@ + src.n)]

\* buf_deep_copy that sets out->size before it knows the capacity is there
buf_deep_copy_sizeFirst(st, src, al) ==
    LET e == buf_ensure_capacity(st, src.n, al)
    IN  IF ~e.ret THEN [e EXCEPT !.b.size = src.n]
        ELSE [e EXCEPT !.bytes = Memcpy(e.bytes, 0, src.bytes),
                       !.b.size = src.n]

\* buf_deep_copy(out, in): src.n is in->size and src.bytes the bytes at in->data.
buf_deep_copy(st, src, al) ==
    LET e == buf_ensure_capacity(st, src.n, al)
    IN  IF ~e.ret THEN e
        ELSE [e EXCEPT !.bytes = Memcpy(e.bytes, 0, src.bytes),
                       !.b.size = src.n]

----------------------------------------------------------------------------
(* The buffer and the calls made on it *)

\* The ring while the buffer is at work: a ring nothing is done with.
IdleRing ==
    /\ r = [data |-> NULL, size |-> 0, count |-> 0, start |-> 0, used |-> 0]
    /\ call = [op |-> "init"]
    /\ last = [op |-> "init"]
    /\ it = NoIter
    /\ S = <<>>
    /\ phase = "fill"
    /\ fronts = [live |-> FALSE, rets |-> <<>>]

NoSrc == [n |-> 0, bytes |-> <<>>]

\* The reallocator was not called.
NoAlloc == [ptr |-> NULL, fill |-> 0, fault |-> "none"]

\* The byte ranges handed to buf_append and buf_deep_copy: for every length
\* up to MaxAlloc + 1 the range whose i-th byte is SrcByte + i, and for the
\* lengths near SIZE_MAX, which no range has, the length alone.
SrcByte == 96

Sources ==
    {[n |-> n, bytes |-> [i \in 1 .. n |-> SrcByte + i]] : n \in 0 .. MaxAlloc + 1}
        \cup {[n |-> SizeMax - k, bytes |-> <<>>] : k \in 0 .. 1}

\* The values asked of buf_ensure_capacity and buf_ensure_remaining.
Amounts == (0 .. MaxAlloc + 1) \cup {SizeMax - k : k \in 0 .. 1}

Failed == [ptr |-> NULL, fill |-> 0, fault |-> "none"]

Allocs ==
    {Failed, [ptr |-> NULL, fill |-> 0, fault |-> "abort"]}
        \cup [ptr : {NULL}, fill : Junk, fault : {"freed"}]
        \cup [ptr : HeapAddrs, fill : Junk, fault : {"none"}]

\* The outcome al is one a request for n bytes can have: there is no
\* outcome but Failed to choose when there is no reallocator, no region of
\* more than MaxAlloc bytes, the region is released on a request for 0
\* bytes, and the process ends only when the region handed in has been
\* released before.
Applies(al, n) ==
    /\ al # Failed => buf.realloc
    /\ al.ptr # NULL => n <= MaxAlloc
    /\ al.fault = "freed" => n = 0
    /\ al.fault = "abort" => dangling

InitBuf ==
    /\ IdleRing
    /\ \E cap \in 0 .. MaxAlloc, dyn \in BOOLEAN :
          /\ buf \in [data : IF cap = 0 /\ dyn THEN {NULL}
                             ELSE IF dyn THEN HeapAddrs ELSE StackAddrs,
                      size : 0 .. cap, capacity : {cap}, realloc : {dyn}]
          /\ bytes = [i \in 1 .. cap |-> InitByte + i]
    /\ dangling = FALSE
    /\ bcall = [op |-> "init", ret |-> TRUE, called |-> FALSE, aborted |-> FALSE,
                arg |-> 0, src |-> NoSrc, al |-> NoAlloc,
                before |-> buf, bytes |-> bytes,
                prev |-> [op |-> "none", ret |-> TRUE]]

\* The call op has been made with the outcome res.
Done(op, arg, src, al, res) ==
    /\ ~bcall.aborted
    /\ buf' = res.b
    /\ bytes' = res.bytes
    /\ dangling' = res.dangling
    /\ bcall' = [op |-> op, ret |-> res.ret, called |-> res.called,
                 aborted |-> res.aborted,
                 arg |-> arg, src |-> src,
                 al |-> IF res.called THEN al ELSE NoAlloc,
                 before |-> buf, bytes |-> bytes,
                 prev |-> [op |-> bcall.op, ret |-> bcall.ret]]
    /\ UNCHANGED ringvars

State == [b |-> buf, bytes |-> bytes, dangling |-> dangling]

EnsureCapacity(cap, al) ==
    /\ Applies(al, cap)
    /\ Done("ensure_capacity", cap, NoSrc, al, buf_ensure_capacity(State, cap, al))

EnsureRemaining(rem, al) ==
    /\ Applies(al, Wrap(buf.size + rem))
    /\ Done("ensure_remaining", rem, NoSrc, al,
         buf_ensure_remaining(State, rem, al))

Trim(al) ==
    /\ Applies(al, buf.size)
    /\ Done("trim", 0, NoSrc, al, buf_trim(State, al))

BufAppend(src, al) ==
    /\ Applies(al, Wrap(buf.size + src.n))
    /\ Done("append", src.n, src, al, buf_append(State, src, al))

DeepCopy(src, al) ==
    /\ src.n = Len(src.bytes)
    /\ Applies(al, src.n)
    /\ Done("deep_copy", src.n, src, al, buf_deep_copy(State, src, al))

NextBuf ==
    \/ \E cap \in Amounts, al \in Allocs : EnsureCapacity(cap, al)
    \/ \E rem \in Amounts, al \in Allocs : EnsureRemaining(rem, al)
    \/ \E al \in Allocs : Trim(al)
    \/ \E src \in Sources, al \in Allocs : BufAppend(src, al)
    \/ \E src \in Sources, al \in Allocs : DeepCopy(src, al)

SpecBuf == InitBuf /\ [][NextBuf]_vars

----------------------------------------------------------------------------
(* Properties of the buffer, checked under SpecBuf *)

\* C12: buf_deep_copy(out, in) succeeds exactly when out->capacity >=
\* in->size already holds or the reallocator is present and succeeds in
\* growing out to in->size; on success out->size = in->size and the first
\* in->size bytes of out are those of in; on failure out's data pointer,
\* size, capacity and stored bytes are unchanged.  (Of a call that returns:
\* a reallocator handed a released region may end the process.)
C12_DeepCopy ==
    (bcall.op = "deep_copy" /\ ~bcall.aborted) =>
        LET out == bcall.before
            in == bcall.src
        IN  /\ bcall.ret <=>
                 \/ out.capacity >= in.n
                 \/ /\ out.realloc
                    /\ bcall.called
                    /\ realloc(bcall.al, in.n) # NULL
            /\ bcall.ret =>
                 /\ buf.size = in.n
                 /\ buf.capacity >= in.n
                 /\ SubSeq(bytes, 1, in.n) = in.bytes
            /\ ~bcall.ret => buf = out /\ bytes = bcall.bytes

\* a copy into a non-empty destination that had to grow, and one into a
\* fixed destination too small for the source
C12_Witness ==
    /\ bcall.op = "deep_copy"
    /\ bcall.ret /\ bcall.called
    /\ bcall.before.size > 0
    /\ bcall.src.n > bcall.before.capacity
    /\ buf.data # bcall.before.data

C12_FixedTooSmall ==
    /\ bcall.op = "deep_copy"
    /\ ~bcall.ret
    /\ ~bcall.before.realloc
    /\ bcall.before.size > 0
    /\ bcall.src.n > bcall.before.capacity

\* C13: on a buffer without reallocator, buf_append of n bytes succeeds iff
\* n <= capacity - size; a successful append advances size by exactly n,
\* keeps the bytes stored before and puts the n source bytes right after
\* them; a failed append changes nothing; so on a full buffer every append
\* of positive length fails.
C13_FixedAppend ==
    (bcall.op = "append" /\ ~bcall.before.realloc) =>
        LET bb == bcall.before
            n == bcall.src.n
        IN  /\ bcall.ret <=> n <= bb.capacity - bb.size
            /\ bcall.ret =>
                 /\ buf = [bb EXCEPT !.size = bb.size + n]
                 /\ SubSeq(bytes, 1, bb.size) = SubSeq(bcall.bytes, 1, bb.size)
                 /\ SubSeq(bytes, bb.size + 1, bb.size + n) = bcall.src.bytes
            /\ ~bcall.ret => buf = bb /\ bytes = bcall.bytes
            /\ (bb.size = bb.capacity /\ n > 0) => ~bcall.ret

\* an append of positive length failing right after the append that filled
\* the buffer
C13_Witness ==
    /\ bcall.op = "append" /\ ~bcall.ret
    /\ bcall.src.n > 0
    /\ ~bcall.before.realloc
    /\ bcall.before.capacity > 0
    /\ bcall.before.size = bcall.before.capacity
    /\ bcall.prev = [op |-> "append", ret |-> TRUE]
    /\ SubSeq(bytes, 1, 1) # <<InitByte + 1>>

\* C14: buf_ensure_capacity(b, cap) succeeds without calling the reallocator
\* and without changing anything when cap <= capacity; otherwise it fails
\* with data, size and capacity unchanged if there is no reallocator or the
\* reallocator returns NULL; otherwise it succeeds with capacity = cap, data
\* the reallocator's result and size untouched.  (Of a call that returns.)
C14_EnsureCapacity ==
    (bcall.op = "ensure_capacity" /\ ~bcall.aborted) =>
        LET bb == bcall.before
            cap == bcall.arg
        IN  IF cap <= bb.capacity
            THEN bcall.ret /\ ~bcall.called /\ buf = bb /\ bytes = bcall.bytes
            ELSE IF ~bb.realloc
            THEN ~bcall.ret /\ ~bcall.called /\ buf = bb
            ELSE IF realloc(bcall.al, cap) = NULL
            THEN ~bcall.ret /\ bcall.called /\ buf = bb
            ELSE /\ bcall.ret /\ bcall.called
                 /\ buf = [bb EXCEPT !.capacity = cap,
                                     !.data = realloc(bcall.al, cap)]

\* a non-empty buffer grown into a region at another address
C14_Witness ==
    /\ bcall.op = "ensure_capacity"
    /\ bcall.ret /\ bcall.called
    /\ bcall.before.size > 0
    /\ buf.capacity > bcall.before.capacity
    /\ buf.data # bcall.before.data

\* C15: size <= capacity holds after any sequence of calls, whether they
\* succeed or fail; and a buffer without reallocator stays without one and
\* keeps its capacity and its data pointer.
C15_SizeWithinCapacity ==
    /\ buf.size <= buf.capacity
    /\ buf.realloc = bcall.before.realloc
    /\ ~bcall.before.realloc =>
          /\ buf.capacity = bcall.before.capacity
          /\ buf.data = bcall.before.data

\* a buffer trimmed to the size an append has just given it
C15_Witness ==
    /\ bcall.op = "trim" /\ bcall.ret /\ bcall.called
    /\ bcall.prev = [op |-> "append", ret |-> TRUE]
    /\ buf.size > 0
    /\ buf.capacity < bcall.before.capacity

\* C16: buf_ensure_remaining(b, rem) with size + rem above SIZE_MAX fails
\* without calling the reallocator and without changing data, size or
\* capacity; and whenever it succeeds, capacity - size >= rem holds
\* afterwards with size unchanged.  (Of a call that returns.)
C16_EnsureRemaining ==
    (bcall.op = "ensure_remaining" /\ ~bcall.aborted) =>
        LET bb == bcall.before
            rem == bcall.arg
        IN  /\ bb.size + rem > SizeMax =>
                 /\ ~bcall.ret /\ ~bcall.called
                 /\ buf = bb /\ bytes = bcall.bytes
            /\ bcall.ret =>
                 /\ buf.capacity - buf.size >= rem
                 /\ buf.size = bb.size

\* size + rem overflows on a buffer that has a reallocator
C16_Witness ==
    /\ bcall.op = "ensure_remaining"
    /\ bcall.before.realloc
    /\ bcall.before.size + bcall.arg > SizeMax
    /\ Wrap(bcall.before.size + bcall.arg) <= MaxAlloc

====
